---- MODULE Spec2Model ----
(***************************************************************************)
(* Model of src/python/list_index_attributes.py: the recursive attribute   *)
(* profiler (get_byte_size, getkeysizes, gethitsizes), the corpus loop     *)
(* (getattributesizes) and the reductions over its data frame              *)
(* (getattributesizestats, exportallattributes).                           *)
(*                                                                         *)
(* Strings that the code splits, searches or rewrites (key paths, keys,    *)
(* type names) are sequences of tokens.  A token is one of the characters  *)
(* ".", "[", "]", "'", "<", ">", " ", a decimal digit, or a run of other   *)
(* characters that none of the string operations of the code looks at.     *)
(***************************************************************************)
EXTENDS Integers, Sequences, FiniteSets, TLC

\* ------------------------------------------------------------------------
\* Bounds of the model.

\* Largest number of nodes below the root of one document ('_source').
MaxNodes == 5

\* Largest number of nodes below the roots of all documents of one run.
MaxCorpusNodes == 3

\* Largest number of hits that the search endpoint returns in one run.
MaxHits == 2

\* ------------------------------------------------------------------------
\* JSON values.  Every value is a record of the same shape:
\*   t      Python type name: "int", "str", "dict", "list", "NoneType"
\*   v      str(value) of a scalar
\*   keys   the keys of a dict, in iteration (insertion) order
\*   items  the values of a dict (parallel to keys) or the elements of a list

PyInt(s) == [t |-> "int", v |-> s, keys |-> <<>>, items |-> <<>>]

PyStr(s) == [t |-> "str", v |-> s, keys |-> <<>>, items |-> <<>>]

PyList(elems) == [t |-> "list", v |-> "", keys |-> <<>>, items |-> elems]

PyDict(ks, vals) == [t |-> "dict", v |-> "", keys |-> ks, items |-> vals]

PyNone == [t |-> "NoneType", v |-> "None", keys |-> <<>>, items |-> <<>>]

\* Keys of nested objects, and the two keys that the code looks up by name.
Keys == {<<"a">>, <<"b">>}

KeyHubmapId == <<"hubmap_id">>

KeyEntityType == <<"entity_type">>

Scalars == {PyInt("1")}

\* ------------------------------------------------------------------------
\* Enumeration of the documents of the model.

\* Total number of nodes below a node (the node itself not counted).
RECURSIVE NodesBelow(_)
NodesBelow(obj) ==
    LET RECURSIVE Sum(_)
        Sum(i) == IF i > Len(obj.items) THEN 0
                  ELSE 1 + NodesBelow(obj.items[i]) + Sum(i + 1)
    IN Sum(1)

\* Sequences of m distinct keys drawn from K.
RECURSIVE KeySeqs(_, _)
KeySeqs(K, m) ==
    IF m = 0 THEN {<<>>}
    ELSE UNION {{<<k>> \o s : s \in KeySeqs(K \ {k}, m - 1)} : k \in K}

\* Sequences of values with n nodes in total, where bysize[k] is the set of
\* the values with k nodes.
RECURSIVE SeqsOfSize(_, _)
SeqsOfSize(bysize, n) ==
    IF n = 0 THEN {<<>>}
    ELSE UNION {{<<val>> \o s : val \in bysize[k], s \in SeqsOfSize(bysize, n - k)}
                : k \in 1..n}

\* The values with exactly n nodes (the value itself included), given the
\* sets bysize[k] of the values with k < n nodes.
ValuesOfSize(bysize, seqs) ==
         {PyList(s) : s \in seqs}
    \cup UNION {{PyDict(ks, s) : ks \in KeySeqs(Keys, Len(s))}
                : s \in {q \in seqs : Len(q) <= Cardinality(Keys)}}

\* bysize[k], for k in 1..n, is the set of the values with exactly k nodes.
RECURSIVE ValuesBySize(_)
ValuesBySize(n) ==
    IF n = 1 THEN <<Scalars \cup {PyList(<<>>), PyDict(<<>>, <<>>)}>>
    ELSE LET Extend(bysize) ==
                 Append(bysize, ValuesOfSize(bysize, SeqsOfSize(bysize, n - 1)))
         IN Extend(ValuesBySize(n - 1))

\* A '_source' object: optionally the identifier, optionally the entity type
\* 'Upload', then the fields of body.
WithMeta(body, hasid, isupload) ==
    LET ik == IF hasid THEN <<KeyHubmapId>> ELSE <<>>
        iv == IF hasid THEN <<PyStr("H1")>> ELSE <<>>
        ek == IF isupload THEN <<KeyEntityType>> ELSE <<>>
        ev == IF isupload THEN <<PyStr("Upload")>> ELSE <<>>
    IN PyDict(ik \o ek \o body.keys, iv \o ev \o body.items)

\* The sequences of at most w positive numbers with a sum of at most n: the
\* numbers of nodes of the top-level fields of a document.
RECURSIVE Compositions(_, _)
Compositions(n, w) ==
    {<<>>} \cup
    (IF w = 0 THEN {}
     ELSE UNION {{<<k>> \o c : c \in Compositions(n - k, w - 1)} : k \in 1..n})

\* The sequences of values of which the i-th has c[i] nodes, where
\* bysize[k] is the set of the values with k nodes.
RECURSIVE Product(_, _)
Product(bysize, c) ==
    IF c = <<>> THEN {<<>>}
    ELSE {<<val>> \o s : val \in bysize[Head(c)], s \in Product(bysize, Tail(c))}

\* The '_source' objects without identifier and entity type of which the
\* i-th field has c[i] nodes.
Bodies(bysize, c) ==
    {PyDict(ks, vals) : ks \in KeySeqs(Keys, Len(c)), vals \in Product(bysize, c)}

\* Number of nodes of the identifier and of the entity type.
Meta(hasid, isupload) == (IF hasid THEN 1 ELSE 0) + (IF isupload THEN 1 ELSE 0)

\* The '_source' objects with at most n nodes below the root.
Sources(bysize, n) ==
    UNION {UNION {{WithMeta(b, iu[1], iu[2]) : b \in Bodies(bysize, c)}
                    : c \in Compositions(n - Meta(iu[1], iu[2]), Cardinality(Keys))}
             : iu \in BOOLEAN \X BOOLEAN}

\* A hit of a search response: has_source is whether it has a '_source'.
Hit(s) == [has_source |-> TRUE, source |-> s]

NoSourceHit == [has_source |-> FALSE, source |-> PyNone]

\* ------------------------------------------------------------------------
\* String operations of Python that the code uses.

\* s.split('.'): the segments of s between the "." tokens.
RECURSIVE Split(_)
Split(s) ==
    IF \A i \in 1..Len(s) : s[i] # "." THEN <<s>>
    ELSE LET d == CHOOSE i \in 1..Len(s) :
                      s[i] = "." /\ \A j \in 1..(i - 1) : s[j] # "."
         IN <<SubSeq(s, 1, d - 1)>> \o Split(SubSeq(s, d + 1, Len(s)))

\* '[' in s
HasBracket(s) == \E i \in 1..Len(s) : s[i] = "["

\* re.sub("\[.*?\]", "", s): every "[" that has a "]" after it is removed
\* together with everything up to the nearest such "]".
RECURSIVE StripIndex(_)
StripIndex(s) ==
    IF s = <<>> THEN <<>>
    ELSE IF Head(s) = "[" /\ \E j \in 2..Len(s) : s[j] = "]"
    THEN LET c == CHOOSE j \in 2..Len(s) :
                      s[j] = "]" /\ \A k \in 2..(j - 1) : s[k] # "]"
         IN StripIndex(SubSeq(s, c + 1, Len(s)))
    ELSE <<Head(s)>> \o StripIndex(Tail(s))

\* str(n) for a natural number n, one token per digit.
RECURSIVE IntToStr(_)
IntToStr(n) ==
    LET digit == <<"0", "1", "2", "3", "4", "5", "6", "7", "8", "9">>
    IN IF n < 10 THEN <<digit[n + 1]>>
       ELSE IntToStr(n \div 10) \o <<digit[(n % 10) + 1]>>

\* s.strip(chars): the tokens of chars removed from both ends of s.
RECURSIVE PyStrip(_, _)
PyStrip(s, chars) ==
    IF s = <<>> THEN <<>>
    ELSE IF Head(s) \in chars THEN PyStrip(Tail(s), chars)
    ELSE IF s[Len(s)] \in chars THEN PyStrip(SubSeq(s, 1, Len(s) - 1), chars)
    ELSE s

\* Unique with the last occurrence of every entry kept instead of the first.
RECURSIVE Unique_LastKept(_)
Unique_LastKept(l) ==
    IF l = <<>> THEN <<>>
    ELSE LET rest == Unique_LastKept(Tail(l))
         IN IF \E i \in 1..Len(rest) : rest[i] = Head(l)
            THEN rest ELSE <<Head(l)>> \o rest

\* Variant of Unique that keeps every repetition: list(l).
Unique_Repetitions(l) == l

\* list(dict.fromkeys(l)): l without repetitions, first occurrences kept.
RECURSIVE Unique(_)
Unique(l) ==
    IF l = <<>> THEN <<>>
    ELSE LET front == Unique(SubSeq(l, 1, Len(l) - 1))
             last == l[Len(l)]
         IN IF \E i \in 1..Len(front) : front[i] = last
            THEN front ELSE Append(front, last)

\* a == b of Python: dicts are equal when they map the same keys to equal
\* values, whatever the order of the keys.
RECURSIVE PyEq(_, _)
PyEq(a, b) ==
    /\ a.t = b.t
    /\ a.v = b.v
    /\ Len(a.items) = Len(b.items)
    /\ IF a.t = "dict"
       THEN \A i \in 1..Len(a.keys) : \E j \in 1..Len(b.keys) :
                a.keys[i] = b.keys[j] /\ PyEq(a.items[i], b.items[j])
       ELSE \A i \in 1..Len(a.items) : PyEq(a.items[i], b.items[i])

\* l.index(element): zero-based position of the first element of l equal
\* to element.
ListIndex(l, element) ==
    (CHOOSE i \in 1..Len(l) :
         PyEq(l[i], element) /\ \A j \in 1..(i - 1) : ~PyEq(l[j], element)) - 1

\* Number of characters of a key.
RECURSIVE KeyLen(_)
KeyLen(k) == IF k = <<>> THEN 0 ELSE Len(Head(k)) + KeyLen(Tail(k))

\* len(repr(obj)), which for the values of the model (str and int scalars
\* without characters to escape, lists, dicts with str keys) is also
\* len(json.dumps(obj)): two quotes around a string, ", " between the
\* elements and ": " after a key.
RECURSIVE ReprLen(_)
ReprLen(obj) ==
    LET n == Len(obj.items)
        RECURSIVE Sum(_)
        Sum(i) == IF i > n THEN 0
                  ELSE (IF obj.t = "dict" THEN KeyLen(obj.keys[i]) + 4 ELSE 0)
                       + ReprLen(obj.items[i]) + Sum(i + 1)
    IN CASE obj.t = "str" -> Len(obj.v) + 2
         [] obj.t \in {"dict", "list"} ->
                2 + Sum(1) + (IF n > 0 THEN 2 * (n - 1) ELSE 0)
         [] OTHER -> Len(obj.v)

\* ------------------------------------------------------------------------
\* The profiler.

get_byte_size(obj) ==
    IF obj.t = "dict" THEN ReprLen(obj)
    ELSE IF obj.t = "str" THEN Len(obj.v)
    ELSE ReprLen(obj)

\* The characters of the name of a Python type.
TypeName(t) ==
    CASE t = "dict" -> <<"d", "i", "c", "t">>
      [] t = "list" -> <<"l", "i", "s", "t">>
      [] t = "str" -> <<"s", "t", "r">>
      [] t = "int" -> <<"i", "n", "t">>
      [] OTHER -> <<"N", "o", "n", "e", "T", "y", "p", "e">>

\* str(type(obj)), e.g. <class 'dict'>
ClassRepr(obj) ==
    <<"<", "c", "l", "a", "s", "s", " ", "'">> \o TypeName(obj.t) \o <<"'", ">">>

\* typ of getkeysizes: strip removes the characters of its argument from
\* both ends, first those of "<class " and then those of "'>".
Typ(obj) ==
    PyStrip(PyStrip(ClassRepr(obj), {"<", "c", "l", "a", "s", " "}), {"'", ">"})

\* fullpath of getkeysizes.
FullPath(key_path, obj_key) ==
    LET keysplit == Split(key_path)
        last_key == IF Len(keysplit) > 1 THEN keysplit[Len(keysplit)] ELSE <<>>
    IN IF obj_key = last_key THEN key_path
       ELSE IF HasBracket(last_key) THEN key_path
       ELSE key_path \o <<".">> \o obj_key

\* key_path_element of getkeysizes for the element at position i (from 1)
\* of obj.
KeyPathElement(fullpath, obj, i) ==
    IF obj.t = "list"
    THEN fullpath \o <<"[">> \o IntToStr(ListIndex(obj.items, obj.items[i])) \o <<"]">>
    ELSE fullpath \o <<".">> \o obj.keys[i]

\* One row of the result: the tuple appended to listsizes.
Row(es_idx, hmid, path, typ, size, attributes) ==
    [index |-> es_idx, hmid |-> hmid, path |-> path, type |-> typ,
     size |-> size, attributes |-> attributes,
     attributecount |-> Len(attributes)]

\* The attribute lists (column 5) of rows, concatenated.
RECURSIVE ConcatAttributes(_)
ConcatAttributes(rows) ==
    IF rows = <<>> THEN <<>>
    ELSE Head(rows).attributes \o ConcatAttributes(Tail(rows))

\* F applied to the value of x: x is evaluated once and its value bound,
\* as an assignment to a local variable does.
With(x, F(_)) == CHOOSE r \in {F(val) : val \in {x}} : TRUE

RECURSIVE getkeysizes(_, _, _, _, _)
RECURSIVE ElementLoop(_, _, _, _, _, _, _)
\* ElementLoop with the attributes of an element replacing those of the
\* elements before it, the attribute of the object itself kept.
ElementLoop_LastElement(es_idx, hmid, fullpath, obj_key, obj, i, st) ==
    IF i > Len(obj.items) THEN st
    ELSE LET key_path_element == KeyPathElement(fullpath, obj, i)
             obj_key_element == IF obj.t = "list" THEN obj_key ELSE obj.keys[i]
             Rest(listelementsizes) ==
                 ElementLoop(es_idx, hmid, fullpath, obj_key, obj, i + 1,
                     [listelementsizes |-> listelementsizes,
                      listelement |-> st.listelement \o listelementsizes,
                      listattributes |-> <<st.listattributes[1]>>
                                           \o ConcatAttributes(listelementsizes)])
         IN With(getkeysizes(es_idx, hmid, key_path_element, obj_key_element,
                             obj.items[i]), Rest)

\* The loop 'for element in obj' of getkeysizes from position i on; st is
\* the value of listelementsizes, listelement and listattributes before it.
ElementLoop(es_idx, hmid, fullpath, obj_key, obj, i, st) ==
    IF i > Len(obj.items) THEN st
    ELSE LET key_path_element == KeyPathElement(fullpath, obj, i)
             obj_key_element == IF obj.t = "list" THEN obj_key ELSE obj.keys[i]
             Rest(listelementsizes) ==
                 ElementLoop(es_idx, hmid, fullpath, obj_key, obj, i + 1,
                     [listelementsizes |-> listelementsizes,
                      listelement |-> st.listelement \o listelementsizes,
                      listattributes |-> st.listattributes
                                           \o ConcatAttributes(listelementsizes)])
         IN With(getkeysizes(es_idx, hmid, key_path_element, obj_key_element,
                             obj.items[i]), Rest)

\* getkeysizes returning, after the row of the object, only the rows of
\* its last element.
getkeysizes_LastRows(es_idx, hmid, key_path, obj_key, obj) ==
    LET fullpath == FullPath(key_path, obj_key)
        obj_attribute == StripIndex(fullpath)
        st0 == [listelementsizes |-> <<>>, listelement |-> <<>>,
                listattributes |-> <<obj_attribute>>]
        Return(st) ==
            LET listuniqueattributes == Unique(st.listattributes)
                listsizes == <<Row(es_idx, hmid, fullpath, Typ(obj),
                                   get_byte_size(obj), listuniqueattributes)>>
            IN IF Len(st.listelementsizes) > 0
               THEN listsizes \o st.listelementsizes
               ELSE listsizes
    IN With(IF obj.t \in {"list", "dict"}
            THEN ElementLoop(es_idx, hmid, fullpath, obj_key, obj, 1, st0)
            ELSE st0, Return)

\* getkeysizes without the attribute of the object itself in its attributes.
getkeysizes_NoOwnAttribute(es_idx, hmid, key_path, obj_key, obj) ==
    LET fullpath == FullPath(key_path, obj_key)
        st0 == [listelementsizes |-> <<>>, listelement |-> <<>>,
                listattributes |-> <<>>]
        Return(st) ==
            LET listuniqueattributes == Unique(st.listattributes)
                listsizes == <<Row(es_idx, hmid, fullpath, Typ(obj),
                                   get_byte_size(obj), listuniqueattributes)>>
            IN IF Len(st.listelementsizes) > 0
               THEN listsizes \o st.listelement
               ELSE listsizes
    IN With(IF obj.t \in {"list", "dict"}
            THEN ElementLoop(es_idx, hmid, fullpath, obj_key, obj, 1, st0)
            ELSE st0, Return)

getkeysizes(es_idx, hmid, key_path, obj_key, obj) ==
    LET fullpath == FullPath(key_path, obj_key)
        obj_attribute == StripIndex(fullpath)
        st0 == [listelementsizes |-> <<>>, listelement |-> <<>>,
                listattributes |-> <<obj_attribute>>]
        Return(st) ==
            LET listuniqueattributes == Unique(st.listattributes)
                listsizes == <<Row(es_idx, hmid, fullpath, Typ(obj),
                                   get_byte_size(obj), listuniqueattributes)>>
            IN IF Len(st.listelementsizes) > 0
               THEN listsizes \o st.listelement
               ELSE listsizes
    IN With(IF obj.t \in {"list", "dict"}
            THEN ElementLoop(es_idx, hmid, fullpath, obj_key, obj, 1, st0)
            ELSE st0, Return)

\* The sizes (column 4) of rows, added up.
RECURSIVE SumSizes(_)
SumSizes(rows) ==
    IF rows = <<>> THEN 0 ELSE Head(rows).size + SumSizes(Tail(rows))

\* The loop 'for key in source' of gethitsizes from position i on.
RECURSIVE SourceLoop(_, _, _, _, _)
SourceLoop(es_idx, hmid, source, i, st) ==
    IF i > Len(source.keys) THEN st
    ELSE LET Rest(listkeysizes) ==
                 LET listattributes ==
                         st.listattributes \o ConcatAttributes(listkeysizes)
                 IN SourceLoop(es_idx, hmid, source, i + 1,
                        [allsizes |-> st.allsizes + SumSizes(listkeysizes),
                         listattributes |-> listattributes,
                         listattributesizes |-> st.listattributesizes \o listkeysizes,
                         listuniqueattributes |-> Unique(listattributes)])
         IN With(getkeysizes(es_idx, hmid, <<"_source">>, source.keys[i],
                             source.items[i]), Rest)

\* source.get(key): the value of key, None when source has no such key.
DictGet(source, key) ==
    IF \E i \in 1..Len(source.keys) : source.keys[i] = key
    THEN source.items[CHOOSE i \in 1..Len(source.keys) : source.keys[i] = key]
    ELSE PyNone

\* gethitsizes returns rows, or raises AttributeError when the hit has no
\* '_source' (None has no attribute 'get').
gethitsizes(es_idx, doc_hit) ==
    IF ~doc_hit.has_source THEN [raised |-> "AttributeError", rows |-> <<>>]
    ELSE LET source == doc_hit.source
             hmid == DictGet(source, KeyHubmapId)
             Return(st) ==
                 LET listsourcesize == <<Row(es_idx, hmid, <<"_source">>,
                                             TypeName("dict"), st.allsizes,
                                             st.listuniqueattributes)>>
                 IN [raised |-> "", rows |-> listsourcesize \o st.listattributesizes]
         IN With(SourceLoop(es_idx, hmid, source, 1,
                     [allsizes |-> 0, listattributes |-> <<<<"_source">>>>,
                      listattributesizes |-> <<>>,
                      listuniqueattributes |-> <<>>]), Return)

\* ------------------------------------------------------------------------
\* The reductions over the data frame of rows.

\* StatsFilter without the condition on the type of the row.
StatsFilter_AnyType(df) ==
    LET Keep(r) == ~HasBracket(r.path)
    IN SelectSeq(df, Keep)

\* dfFiltered of getattributesizestats.
StatsFilter(df) ==
    LET Keep(r) == /\ r.type \in {TypeName("dict"), TypeName("list")}
                   /\ ~HasBracket(r.path)
    IN SelectSeq(df, Keep)

RECURSIVE Gcd(_, _)
Gcd(a, b) == IF b = 0 THEN a ELSE Gcd(b, a % b)

\* The mean sum / n as a fraction in lowest terms.
Mean(sum, n) == [num |-> sum \div Gcd(sum, n), den |-> n \div Gcd(sum, n)]

\* The aggregation of 'size' (min, max, mean) and of 'attributecount' (max)
\* over the rows of one group.
Agg(rows) ==
    LET idx == 1..Len(rows)
        RECURSIVE Sum(_)
        Sum(i) == IF i > Len(rows) THEN 0 ELSE rows[i].size + Sum(i + 1)
    IN [size_min |-> CHOOSE m \in {rows[i].size : i \in idx} :
                         \A i \in idx : m <= rows[i].size,
        size_max |-> CHOOSE m \in {rows[i].size : i \in idx} :
                         \A i \in idx : m >= rows[i].size,
        size_mean |-> Mean(Sum(1), Len(rows)),
        attributecount_max |->
            CHOOSE m \in {rows[i].attributecount : i \in idx} :
                \A i \in idx : m >= rows[i].attributecount]

\* dfStats: one row of aggregates for every (index, path) of dfFiltered.
getattributesizestats(df) ==
    LET dfFiltered == StatsFilter(df)
        groups == {<<dfFiltered[i].index, dfFiltered[i].path>>
                     : i \in 1..Len(dfFiltered)}
    IN [g \in groups |->
           LET InGroup(r) == r.index = g[1] /\ r.path = g[2]
           IN Agg(SelectSeq(dfFiltered, InGroup))]

\* exportallattributes without the filter on the index of the rows.
exportallattributes_AnyIndex(df) ==
    LET IsSource(r) == r.path = <<"_source">>
        dfattributes == SelectSeq(df, IsSource)
        listindexes == {dfattributes[i].index : i \in 1..Len(dfattributes)}
    IN [i \in listindexes |-> Unique(ConcatAttributes(dfattributes))]

\* The files that exportallattributes writes: for every index of a row with
\* path '_source', the attributes of those rows without repetitions.
exportallattributes(df) ==
    LET IsSource(r) == r.path = <<"_source">>
        dfattributes == SelectSeq(df, IsSource)
        listindexes == {dfattributes[i].index : i \in 1..Len(dfattributes)}
    IN [i \in listindexes |->
           LET OfIndex(r) == r.index = i
           IN Unique(ConcatAttributes(SelectSeq(dfattributes, OfIndex)))]

\* ------------------------------------------------------------------------
\* The run of the script.

\* The indexes of the configuration file, in the order of the file.
Indexes == <<"portal", "entities">>

\* Debugging limit of getattributesizes on the hits of one index.
DEBUGHITNUM == 100000

VARIABLES
    pc,                 \* where the script is
    idxpos,             \* position in Indexes of idx of getattributesizes
    ihit,               \* counter of hits of idx
    received,           \* the hits returned so far, each with its index
    hit,                \* the hit handed to gethitsizes
    hitsizes,           \* the rows returned by gethitsizes
    dfattributesizes,   \* the data frame of rows of all hits
    dfskip,             \* the identifiers of the skipped hits
    dfstats,            \* the statistics
    files               \* the attribute file of every exported index

vars == <<pc, idxpos, ihit, received, hit, hitsizes, dfattributesizes,
          dfskip, dfstats, files>>

NoStats == [g \in {} |-> 0]

Init ==
    /\ pc = "sizing"
    /\ idxpos = 1
    /\ ihit = 0
    /\ received = <<>>
    /\ hit = NoSourceHit
    /\ hitsizes = <<>>
    /\ dfattributesizes = <<>>
    /\ dfskip = <<>>
    /\ dfstats = NoStats
    /\ files = NoStats

\* Number of nodes below the roots of the documents received so far.
RECURSIVE CorpusNodes(_)
CorpusNodes(rec) ==
    IF rec = <<>> THEN 0
    ELSE NodesBelow(Head(rec).hit.source) + CorpusNodes(Tail(rec))

\* One iteration of 'for hit in hits' of getattributesizes, for a hit h of
\* the response of the search endpoint.  At hit number DEBUGHITNUM the loops
\* over the hits and the pages of the index end; a hit without '_source'
\* ends the script with AttributeError (line 429); an 'Upload' is skipped.
ProcessHit(h) ==
    /\ pc = "sizing"
    /\ Len(received) < MaxHits
    /\ CorpusNodes(received) + NodesBelow(h.source) <= MaxCorpusNodes
    /\ received' = Append(received, [index |-> Indexes[idxpos], hit |-> h])
    /\ hit' = h
    /\ IF ihit + 1 = DEBUGHITNUM
       THEN /\ ihit' = 0
            /\ idxpos' = idxpos + 1
            /\ pc' = IF idxpos = Len(Indexes) THEN "sized" ELSE "sizing"
            /\ UNCHANGED <<hitsizes, dfattributesizes, dfskip>>
       ELSE IF ~h.has_source
       THEN /\ ihit' = ihit + 1
            /\ pc' = "AttributeError"
            /\ UNCHANGED <<idxpos, hitsizes, dfattributesizes, dfskip>>
       ELSE IF DictGet(h.source, KeyEntityType) = PyStr("Upload")
       THEN /\ ihit' = ihit + 1
            /\ dfskip' = Append(dfskip, DictGet(h.source, KeyHubmapId))
            /\ UNCHANGED <<pc, idxpos, hitsizes, dfattributesizes>>
       ELSE /\ ihit' = ihit + 1
            /\ hitsizes' = gethitsizes(Indexes[idxpos], h).rows
            /\ dfattributesizes' = dfattributesizes \o hitsizes'
            /\ UNCHANGED <<pc, idxpos, dfskip>>
    /\ UNCHANGED <<dfstats, files>>

\* The search endpoint returns no hits: the loop over the pages of idx ends,
\* and after the last index getattributesizes returns.
EndOfIndex ==
    /\ pc = "sizing"
    /\ idxpos' = idxpos + 1
    /\ ihit' = 0
    /\ pc' = IF idxpos = Len(Indexes) THEN "sized" ELSE "sizing"
    /\ UNCHANGED <<received, hit, hitsizes, dfattributesizes, dfskip,
                   dfstats, files>>

\* dfstats = getattributesizestats(df=dfSizes)
GetAttributeSizeStats ==
    /\ pc = "sized"
    /\ dfstats' = getattributesizestats(dfattributesizes)
    /\ pc' = "stats"
    /\ UNCHANGED <<idxpos, ihit, received, hit, hitsizes, dfattributesizes,
                   dfskip, files>>

\* exportallattributes(df=dfSizes)
ExportAllAttributes ==
    /\ pc = "stats"
    /\ files' = exportallattributes(dfattributesizes)
    /\ pc' = "done"
    /\ UNCHANGED <<idxpos, ihit, received, hit, hitsizes, dfattributesizes,
                   dfskip, dfstats>>

CorpusValues == ValuesBySize(MaxCorpusNodes)

\* The hits that the search endpoint may return.
CorpusHits ==
    {Hit(s) : s \in Sources(CorpusValues, MaxCorpusNodes)} \cup {NoSourceHit}

Next ==
    \/ \E h \in CorpusHits : ProcessHit(h)
    \/ EndOfIndex
    \/ GetAttributeSizeStats
    \/ ExportAllAttributes

Spec == Init /\ [][Next]_vars

\* ------------------------------------------------------------------------
\* The profiling of one document: gethitsizes called on one hit.

DocValues == ValuesBySize(MaxNodes)

\* gethitsizes is about to be called on a hit that has a '_source' with at
\* most MaxNodes nodes below the root and is not an 'Upload'.
InitDoc ==
    /\ pc = "call"
    /\ idxpos = 1
    /\ ihit = 0
    /\ received = <<>>
    /\ \E hasid \in BOOLEAN :
           \E c \in Compositions(MaxNodes - Meta(hasid, FALSE), Cardinality(Keys)) :
               \E b \in Bodies(DocValues, c) :
                   hit = Hit(WithMeta(b, hasid, FALSE))
    /\ hitsizes = <<>>
    /\ dfattributesizes = <<>>
    /\ dfskip = <<>>
    /\ dfstats = NoStats
    /\ files = NoStats

\* hitsizes = gethitsizes(es_idx=idx, doc_hit=hit)
GetHitSizes ==
    /\ pc = "call"
    /\ \E res \in {gethitsizes(Indexes[idxpos], hit)} :
           /\ hitsizes' = res.rows
           /\ pc' = IF res.raised = "" THEN "returned" ELSE res.raised
    /\ UNCHANGED <<idxpos, ihit, received, hit, dfattributesizes, dfskip,
                   dfstats, files>>

NextDoc == GetHitSizes

SpecDoc == InitDoc /\ [][NextDoc]_vars

\* ------------------------------------------------------------------------
\* The rows of a result, node by node.  gethitsizes and getkeysizes emit
\* the row of a node and then the rows of its children in order, so that
\* the rows of the i-th child of a node start after the rows of the
\* children before it.

\* Position, in the rows of obj, of the first row of its i-th child.
RECURSIVE SliceStart(_, _)
SliceStart(obj, i) ==
    IF i = 1 THEN 2
    ELSE SliceStart(obj, i - 1) + 1 + NodesBelow(obj.items[i - 1])

\* The rows of the i-th child of obj, given the rows of obj.
ChildRows(rows, obj, i) ==
    SubSeq(rows, SliceStart(obj, i), SliceStart(obj, i) + NodesBelow(obj.items[i]))

\* Every node of the subtree of obj, each with its rows.
RECURSIVE NodesOf(_, _)
NodesOf(rows, obj) ==
    {[rows |-> rows, obj |-> obj]}
    \cup UNION {NodesOf(ChildRows(rows, obj, i), obj.items[i])
                  : i \in 1..Len(obj.items)}

\* gethitsizes has returned as many rows as the document has nodes.
Profiled == pc = "returned" /\ Len(hitsizes) = 1 + NodesBelow(hit.source)

\* The nodes that getkeysizes has visited: all but the root of the document.
Visited ==
    UNION {NodesOf(ChildRows(hitsizes, hit.source, i), hit.source.items[i])
             : i \in 1..Len(hit.source.items)}

\* l without repetitions, the first occurrence of every entry kept.
RECURSIVE FirstOccurrences(_)
FirstOccurrences(l) ==
    IF l = <<>> THEN <<>>
    ELSE LET IsOther(e) == e # Head(l)
         IN <<Head(l)>> \o FirstOccurrences(SelectSeq(Tail(l), IsOther))

\* The attributes of the top rows of the children of n, concatenated.
RECURSIVE ChildFieldNames(_, _)
ChildFieldNames(n, i) ==
    IF i > Len(n.obj.items) THEN <<>>
    ELSE ChildRows(n.rows, n.obj, i)[1].attributes \o ChildFieldNames(n, i + 1)

\* C1: gethitsizes returns one row for the document and one row for every
\* node below the root of the document (every object, array, scalar and
\* array element once).
C1_RowCount ==
    pc = "returned" => Len(hitsizes) = 1 + NodesBelow(hit.source)

C1_Witness ==
    /\ pc = "returned"
    /\ NodesBelow(hit.source) = MaxNodes
    /\ \E i \in 1..Len(hit.source.items) :
           /\ hit.source.items[i].t = "list"
           /\ Len(hit.source.items[i].items) >= 2
           /\ \E j \in 1..Len(hit.source.items[i].items) :
                  hit.source.items[i].items[j].t = "dict"

\* C2: the attributes of the row of every visited node are the first
\* occurrences of the node's own attribute followed by the attributes of
\* the top rows of its children, in the order of the children.
C2_FieldNames ==
    pc = "returned" =>
        /\ Profiled
        /\ \A n \in Visited :
               n.rows[1].attributes =
                   FirstOccurrences(<<StripIndex(n.rows[1].path)>>
                                    \o ChildFieldNames(n, 1))

C2_Witness ==
    /\ Profiled
    /\ \E n \in Visited :
           /\ Len(n.obj.items) = 2
           /\ Len(ChildRows(n.rows, n.obj, 1)[1].attributes) >= 2
           /\ Len(ChildFieldNames(n, 1)) > Len(n.rows[1].attributes)

\* C3: the row of the element at position i (from 0) of an array with path
\* P has path P[i].
C3_ElementPath ==
    pc = "returned" =>
        /\ Profiled
        /\ \A n \in Visited :
               n.obj.t = "list" =>
                   \A i \in 1..Len(n.obj.items) :
                       ChildRows(n.rows, n.obj, i)[1].path =
                           n.rows[1].path \o <<"[">> \o IntToStr(i - 1) \o <<"]">>

\* C4: the size of the row of the document is the sum of the sizes of the
\* rows of its top-level fields.
C4_DocumentSize ==
    pc = "returned" =>
        /\ Profiled
        /\ LET RECURSIVE Sum(_)
               Sum(i) == IF i > Len(hit.source.items) THEN 0
                         ELSE ChildRows(hitsizes, hit.source, i)[1].size + Sum(i + 1)
           IN hitsizes[1].size = Sum(1)

ElementKeys(obj) ==
    UNION {{obj.items[i].keys[j] : j \in 1..Len(obj.items[i].keys)}
             : i \in 1..Len(obj.items)}

C7_MissingIdentifier ==
    (pc # "call" /\ DictGet(hit.source, KeyHubmapId) = PyNone) =>
        /\ pc = "MissingIdentifier"
        /\ hitsizes = <<>>

\* ------------------------------------------------------------------------
\* The run over the corpus.

\* The hit of entry e of received has been profiled with gethitsizes.
IsProfiled(e) ==
    /\ e.hit.has_source
    /\ DictGet(e.hit.source, KeyEntityType) # PyStr("Upload")

\* The number of rows of the entries of rec.
RECURSIVE RowsOf(_)
RowsOf(rec) ==
    IF rec = <<>> THEN 0
    ELSE (IF IsProfiled(Head(rec)) THEN 1 + NodesBelow(Head(rec).hit.source) ELSE 0)
         + RowsOf(Tail(rec))

\* The data frame has the rows of the profiled hits and no others.
Sized ==
    /\ pc \in {"sized", "stats", "done"}
    /\ Len(dfattributesizes) = RowsOf(received)

\* The positions in the data frame of the rows of the documents (the first
\* row of every profiled hit), in the order of the hits.
RECURSIVE DocumentRows(_)
DocumentRows(rec) ==
    IF rec = <<>> THEN <<>>
    ELSE LET front == SubSeq(rec, 1, Len(rec) - 1)
         IN DocumentRows(front)
            \o (IF IsProfiled(rec[Len(rec)]) THEN <<RowsOf(front) + 1>> ELSE <<>>)

\* The row with a path that ends with an index is the row of an array element.
IsArrayElement(path) == path # <<>> /\ path[Len(path)] = "]"

IsContainer(r) == r.type \in {TypeName("dict"), TypeName("list")}

\* C8: the statistics are grouped by index and by path without index
\* markers, so that the row of every container that is not itself an array
\* element, also one below an array element, belongs to the group of its
\* attribute and contributes to the statistics of that group.
C8_GroupedByAttribute ==
    pc \in {"stats", "done"} =>
        \A k \in 1..Len(dfattributesizes) :
            LET r == dfattributesizes[k]
                g == <<r.index, StripIndex(r.path)>>
            IN (IsContainer(r) /\ ~IsArrayElement(r.path)) =>
                   /\ g \in DOMAIN dfstats
                   /\ dfstats[g].size_min <= r.size
                   /\ dfstats[g].size_max >= r.size

\* The positions of the rows that the group g of C9 is about.
GroupRows(g) ==
    {k \in 1..Len(dfattributesizes) :
         /\ dfattributesizes[k].index = g[1]
         /\ dfattributesizes[k].path = g[2]
         /\ IsContainer(dfattributesizes[k])
         /\ ~IsArrayElement(dfattributesizes[k].path)}

\* The sum of the sizes of the rows at the positions K.
RECURSIVE SizeSum(_)
SizeSum(K) ==
    IF K = {} THEN 0
    ELSE LET k == CHOOSE j \in K : TRUE
         IN dfattributesizes[k].size + SizeSum(K \ {k})

\* The aggregates of group g are the minimum, maximum and mean of the sizes
\* and the maximum of the attribute counts of the rows of GroupRows(g).
AggregatesOf(g) ==
    LET K == GroupRows(g)
        st == dfstats[g]
    IN /\ K # {}
       /\ \E k \in K : st.size_min = dfattributesizes[k].size
       /\ \A k \in K : st.size_min <= dfattributesizes[k].size
       /\ \E k \in K : st.size_max = dfattributesizes[k].size
       /\ \A k \in K : st.size_max >= dfattributesizes[k].size
       /\ st.size_mean.num * Cardinality(K) = SizeSum(K) * st.size_mean.den
       /\ \E k \in K : st.attributecount_max = dfattributesizes[k].attributecount
       /\ \A k \in K : st.attributecount_max >= dfattributesizes[k].attributecount

RECURSIVE AttributesAt(_, _)
AttributesAt(ps, i) ==
    IF ps = <<>> THEN <<>>
    ELSE (IF dfattributesizes[Head(ps)].index = i
          THEN dfattributesizes[Head(ps)].attributes ELSE <<>>)
         \o AttributesAt(Tail(ps), i)

\* C10: the file of an index has the first occurrences of the attributes
\* of the rows of the documents of that index, in the order of the
\* documents, and there is a file for every index with a document.
C10_Catalogue ==
    pc = "done" =>
        /\ Sized
        /\ LET ps == DocumentRows(received)
           IN /\ DOMAIN files = {dfattributesizes[ps[j]].index : j \in 1..Len(ps)}
              /\ \A j \in 1..Len(ps) :
                     dfattributesizes[ps[j]].index = received[
                         CHOOSE m \in 1..Len(received) :
                             /\ IsProfiled(received[m])
                             /\ RowsOf(SubSeq(received, 1, m - 1)) + 1 = ps[j]].index
              /\ \A i \in DOMAIN files :
                     files[i] = FirstOccurrences(AttributesAt(ps, i))

C10_Witness ==
    /\ pc = "done"
    /\ Sized
    /\ LET ps == DocumentRows(received)
       IN /\ Len(ps) = 2
          /\ dfattributesizes[ps[1]].index = dfattributesizes[ps[2]].index
          /\ LET f == files[dfattributesizes[ps[1]].index]
             IN /\ Len(f) > Len(dfattributesizes[ps[1]].attributes)
                /\ Len(f) > Len(dfattributesizes[ps[2]].attributes)
                /\ Len(f) < Len(dfattributesizes[ps[1]].attributes)
                            + Len(dfattributesizes[ps[2]].attributes)

\* ------------------------------------------------------------------------
\* Errors during the run over the corpus.

\* C11: a hit without '_source' ends the profiling of that hit only: after
\* such a hit has been received the run is still going through the hits or
\* has gone on to the reductions, and the data frame has the rows of the
\* hits profiled before it.
C11_ErrorIsolated ==
    (\E k \in 1..Len(received) : ~received[k].hit.has_source) =>
        /\ pc \in {"sizing", "sized", "stats", "done"}
        /\ Len(dfattributesizes) = RowsOf(received)

\* ------------------------------------------------------------------------
\* The attribute list and the attribute count of a row.

\* C12: in every row that gethitsizes returns (the row of the document and
\* the row of every node below it) the attribute count is the length of the
\* attribute list, and no attribute is in the list twice.
C12_CountOfDistinctAttributes ==
    pc = "returned" =>
        \A k \in 1..Len(hitsizes) :
            /\ hitsizes[k].attributecount = Len(hitsizes[k].attributes)
            /\ \A i, j \in 1..Len(hitsizes[k].attributes) :
                   hitsizes[k].attributes[i] = hitsizes[k].attributes[j] => i = j

\* A document of which both the document row and the row of a field had
\* repeated attributes to drop: the rows below them have more attributes
\* together than their own lists keep.
C12_Witness ==
    /\ Profiled
    /\ hitsizes[1].attributecount >= 3
    /\ hitsizes[1].attributecount < Len(hitsizes)
    /\ \E n \in Visited :
           /\ n.rows[1].attributecount >= 2
           /\ n.rows[1].attributecount < Len(n.rows)

\* ------------------------------------------------------------------------
\* Documents with any JSON key: a key of an object may have a "." in it
\* and may be the empty string.

\* Largest number of nodes below the root of one such document.
MaxKeyNodes == 3

\* The keys of these documents: the keys of the other documents, the key
\* 'a.b' and the key ''.
AnyKeys == Keys \cup {<<"a", ".", "b">>, <<>>}

\* The values with exactly n nodes and keys from K, given the sets
\* bysize[k] of the values with k < n nodes.
ValuesOfSizeWith(K, bysize, seqs) ==
         {PyList(s) : s \in seqs}
    \cup UNION {{PyDict(ks, s) : ks \in KeySeqs(K, Len(s))}
                : s \in {q \in seqs : Len(q) <= Cardinality(K)}}

\* bysize[k], for k in 1..n, is the set of the values with exactly k nodes
\* and keys from K.
RECURSIVE ValuesBySizeWith(_, _)
ValuesBySizeWith(K, n) ==
    IF n = 1 THEN <<Scalars \cup {PyList(<<>>), PyDict(<<>>, <<>>)}>>
    ELSE LET Extend(bysize) ==
                 Append(bysize,
                        ValuesOfSizeWith(K, bysize, SeqsOfSize(bysize, n - 1)))
         IN Extend(ValuesBySizeWith(K, n - 1))

\* The '_source' objects with keys from K, without identifier and entity
\* type, of which the i-th field has c[i] nodes.
BodiesWith(K, bysize, c) ==
    {PyDict(ks, vals) : ks \in KeySeqs(K, Len(c)), vals \in Product(bysize, c)}

AnyKeyValues == ValuesBySizeWith(AnyKeys, MaxKeyNodes)

\* gethitsizes is about to be called on a hit that has a '_source' with at
\* most MaxKeyNodes nodes below the root, keys from AnyKeys, and is not an
\* 'Upload'.
InitAnyKeys ==
    /\ pc = "call"
    /\ idxpos = 1
    /\ ihit = 0
    /\ received = <<>>
    /\ \E hasid \in BOOLEAN :
           \E c \in Compositions(MaxKeyNodes - Meta(hasid, FALSE),
                                 Cardinality(AnyKeys)) :
               \E b \in BodiesWith(AnyKeys, AnyKeyValues, c) :
                   hit = Hit(WithMeta(b, hasid, FALSE))
    /\ hitsizes = <<>>
    /\ dfattributesizes = <<>>
    /\ dfskip = <<>>
    /\ dfstats = NoStats
    /\ files = NoStats

SpecAnyKeys == InitAnyKeys /\ [][NextDoc]_vars

\* The objects of the document, each with its rows: the '_source' object
\* with the rows of gethitsizes, and every object that getkeysizes visited.
ObjectNodes ==
    {[rows |-> hitsizes, obj |-> hit.source]}
    \cup {n \in Visited : n.obj.t = "dict"}

\* C13: the row of the child with key k of an object with path P has path
\* P.k; and when that child is an array with elements, the row of its first
\* element has path P.k[0], which, for P without an index, is P.k again
\* once the code has removed the index from it.
C13_ChildPath ==
    pc = "returned" =>
        /\ Profiled
        /\ \A n \in ObjectNodes :
               \A i \in 1..Len(n.obj.keys) :
                   LET P == n.rows[1].path
                       child == ChildRows(n.rows, n.obj, i)
                       field == n.obj.items[i]
                   IN /\ child[1].path = P \o <<".">> \o n.obj.keys[i]
                      /\ (field.t = "list" /\ field.items # <<>>) =>
                             /\ ChildRows(child, field, 1)[1].path
                                    = child[1].path \o <<"[", "0", "]">>
                             /\ ~HasBracket(P) =>
                                    StripIndex(ChildRows(child, field, 1)[1].path)
                                        = child[1].path
====
